---------------------------- MODULE Spec2Model ----------------------------
(***************************************************************************)
(* Model of the edge consumers (edge/consumer.py) and of the persistence   *)
(* helpers they call (api/database.py, api/models.py), and of the HTTP     *)
(* endpoints that create, fill, review, erase and search cases             *)
(* (api/main.py).                                                          *)
(*                                                                         *)
(* Conventions                                                             *)
(*  - conf is kept in hundredths (0.4 is 40); duration_s in seconds.       *)
(*  - a JSON message is a record: raw says whether the bytes decode and    *)
(*    parse, fields is the set of member names present, wrong the set of   *)
(*    members whose value has a type the schema rejects; the remaining     *)
(*    fields are the member values.                                        *)
(*  - a URL text is the tuple <<scheme, host, path>> of its parts; NoUrl   *)
(*    (the empty tuple) is a NULL evidence_url column.                     *)
(*  - NULL is a NULL string column.                                        *)
(*  - a primary key (uuid4) is a fresh number taken from nextId.           *)
(*  - the created_at columns are not modelled.                             *)
(*  - a handler advances from one commit or rollback to the next, doing    *)
(*    the in-memory statements before it in the same step; the steps of    *)
(*    the two routes interleave freely, which covers every schedule of the *)
(*    bus client.                                                          *)
(*  - an HTTP handler advances from one database statement (or await) to  *)
(*    the next; one request of each endpoint is in flight at a time, and   *)
(*    the requests of different endpoints interleave freely (the async     *)
(*    endpoint yields at its await, the others run in worker threads).     *)
(*  - a case, photo or review row is kept by its key and, for the last    *)
(*    two, its case_id; the columns no endpoint here reads are left out.   *)
(***************************************************************************)
EXTENDS Integers, Sequences, FiniteSets, Bags, TLC

\* ------------------------------------------------------------------ bounds
\* Messages the bus delivers in one run.
MaxDeliveries == 2
\* Storage faults (a failing session.commit()) in one run.
MaxFaults == 1
\* HTTP requests the API serves in one run.
MaxRequests == 4
\* Candidates in the search fixture file.
MaxFixture == 3

\* -------------------------------------------------------------- constants
\* EdgeSettings.litter_conf_threshold, default "0.4", in hundredths.
LITTER_CONF_THRESHOLD == 40
\* EdgeSettings.litter_duration_threshold, default "180".
LITTER_DURATION_THRESHOLD == 180
\* SearchRequest.top_k: Field(10, ge=1).
DEFAULT_TOP_K == 10

NULL == "NULL"
NoUrl == <<>>
Routes == {"litter", "playroom"}

\* ------------------------------------------------------------ input values
DurVals == {50, 180, 200}
ConfVals == {10, 40, 90}
LitterSubject == "events.litter.device1"

\* LitterEventPayload: the declared members, all required (no defaults).
LitterFields == {"pet_id", "type", "ts", "duration_s", "conf", "payload"}
\* PlayroomAlertPayload: the declared members, all required.
PlayroomFields ==
    {"pet_id", "room_id", "kind", "severity", "state", "evidence_url", "ts"}

LitterBase ==
    [raw |-> "json", fields |-> LitterFields, wrong |-> {},
     pet_id |-> "p1", type |-> "use", ts |-> 1,
     duration_s |-> 200, conf |-> 90, payload |-> {}]

\* Well-formed litter events: every pair of a duration and a confidence
\* below, at and above its threshold, a second pet, a negative duration and
\* a payload that is not empty.
LitterWellFormed ==
    { [LitterBase EXCEPT !.duration_s = d, !.conf = c] :
        d \in DurVals, c \in ConfVals }
      \cup { [LitterBase EXCEPT !.pet_id = "p2", !.conf = 10],
             [LitterBase EXCEPT !.duration_s = -5],
             [LitterBase EXCEPT !.payload = {<<"weight_g", 42>>}] }

\* Messages with a defect: bytes that are not UTF-8, text that is not JSON,
\* a missing member, a member of the wrong type, an unknown member.
LitterDefective ==
    { [LitterBase EXCEPT !.raw = "bad_utf8"],
      [LitterBase EXCEPT !.raw = "bad_json"],
      [LitterBase EXCEPT !.fields = LitterFields \ {"conf"}],
      [LitterBase EXCEPT !.fields = LitterFields \ {"payload"}],
      [LitterBase EXCEPT !.wrong = {"duration_s"}],
      [LitterBase EXCEPT !.fields = LitterFields \cup {"extra"}] }

LitterMsgs == LitterWellFormed \cup LitterDefective

PlayroomBase ==
    [raw |-> "json", fields |-> PlayroomFields, wrong |-> {},
     pet_id |-> "p2", room_id |-> "r1", kind |-> "fight",
     severity |-> "high", state |-> "open",
     evidence_url |-> <<"https", "x", "/e.mp4">>, ts |-> 1]

UrlVals ==
    { <<"https", "x", "/e.mp4">>, <<"https", "x", "">>, <<"", "not a url", "">> }

\* Playroom alerts that differ in one member from the base alert; the
\* third URL has no scheme and is not a URL.
PlayroomWellFormed ==
    { [PlayroomBase EXCEPT !.evidence_url = u] : u \in UrlVals }
      \cup { [PlayroomBase EXCEPT !.severity = "critical"],
             [PlayroomBase EXCEPT !.state = "closed", !.ts = 2] }

PlayroomDefective ==
    { [PlayroomBase EXCEPT !.raw = "bad_utf8"],
      [PlayroomBase EXCEPT !.raw = "bad_json"],
      [PlayroomBase EXCEPT !.fields = PlayroomFields \ {"room_id"}],
      [PlayroomBase EXCEPT !.wrong = {"ts"}] }

PlayroomMsgs == PlayroomWellFormed \cup PlayroomDefective

\* --------------------------------------------------------------- the state
VARIABLES
    mainpc,     \* main(): "start", "loop", "draining", "returned"
    litterQ,    \* messages received on events.litter.*, not yet handled
    playQ,      \* messages received on playroom.alerts.*, not yet handled
    litter,     \* the running handle_litter_event invocation
    play,       \* the running handle_playroom_alert invocation
    sessions,   \* per route: the rows added to its Session, not committed
    events,     \* table events, committed rows in insertion order
    alerts,     \* table alerts, committed rows in insertion order
    nextId,     \* next fresh primary key
    hist        \* history, read by the properties only: delivered and
                \* completed count messages received and callbacks ended;
                \* faults, litterFaults count failed commits; nValid, nBreach
                \* count the valid litter events received and those among
                \* them past a threshold; derived pairs each derived
                \* alert's key with its event's key; atCancel is
                \* <<delivered, completed>> when the cancellation arrived;
                \* seqEvents, seqAlerts are the bags of rows that handling
                \* the completed messages one after another leaves

VARIABLES
    cases,      \* table cases: the keys of the committed rows
    photos,     \* table photos: committed rows [id, case_id]
    reviews,    \* table case_reviews: committed rows [id, case_id]
    upload,     \* the upload_photo request in flight, or its last response
    review,     \* the record_review request in flight, or its last response
    erase,      \* the erase_case request in flight, or its last response
    cache,      \* the lru_cache of _cached_candidates
    served,     \* the API process: up (on_startup has run), requests
                \* (count of requests taken), created (keys of the cases
                \* ever created), search (the last search and its response)
    config      \* the deployment: foreign_keys (does the database enforce
                \* them), fixture (content of the search fixture file)

\* What only the consumer process reads and writes.
handler_vars == <<mainpc, litterQ, playQ, litter, play, sessions, hist>>

\* What only the API process reads and writes.
api_vars == <<cases, photos, reviews, upload, review, erase, cache, served,
              config>>

vars == <<mainpc, litterQ, playQ, litter, play, sessions, events, alerts,
          nextId, hist, cases, photos, reviews, upload, review, erase, cache,
          served, config>>

\* ------------------------------------------------------------- validation
\* msg.data.decode("utf-8"): strict decoding, raises UnicodeDecodeError.
Decodes(m) == m.raw # "bad_utf8"

\* HttpUrl validation: an http or https scheme and a host.
HttpUrlValid(u) == u[1] \in {"http", "https"} /\ u[2] # ""

\* str(HttpUrl): the normalised text; an empty path is rendered as "/".
HttpUrlStr(u) == <<u[1], u[2], IF u[3] = "" THEN "/" ELSE u[3]>>

\* LitterEventPayload.model_validate_json: JSON text, exactly the declared
\* members (extra="forbid", none optional), each of its declared type.
LitterValid(m) ==
    /\ m.raw = "json"
    /\ m.fields = LitterFields
    /\ m.wrong = {}

\* PlayroomAlertPayload.model_validate_json.
PlayroomValid(m) ==
    /\ m.raw = "json"
    /\ m.fields = PlayroomFields
    /\ m.wrong = {}
    /\ HttpUrlValid(m.evidence_url)

\* ------------------------------------------------------- the anomaly rule
\* Variant: the duration threshold itself counts as a breach.
duration_breach_at_threshold(p) == p.duration_s >= LITTER_DURATION_THRESHOLD

duration_breach(p) == p.duration_s > LITTER_DURATION_THRESHOLD

\* Variant: the confidence threshold itself counts as a breach.
confidence_breach_at_threshold(p) == p.conf <= LITTER_CONF_THRESHOLD

confidence_breach(p) == p.conf < LITTER_CONF_THRESHOLD

\* Variant: the duration breach decides the severity.
severity_by_duration(p) == IF duration_breach(p) THEN "moderate" ELSE "high"

severity(p) == IF confidence_breach(p) THEN "high" ELSE "moderate"

\* ---------------------------------------------------------------- the rows
\* _utcnow(): a logical clock, later than every message timestamp.
utcnow == 100 + nextId

\* Variant: the device-specific payload is not kept.
EventRowWithoutPayload(id, subject, p) ==
    [id |-> id, source |-> subject, pet_id |-> p.pet_id, type |-> p.type,
     ts |-> p.ts, duration_s |-> p.duration_s, conf |-> p.conf,
     payload_json |-> {}]

\* EventRecordORM(...) in record_litter_event.
EventRow(id, subject, p) ==
    [id |-> id, source |-> subject, pet_id |-> p.pet_id, type |-> p.type,
     ts |-> p.ts, duration_s |-> p.duration_s, conf |-> p.conf,
     payload_json |-> p.payload]

\* AlertRecord(...) in record_playroom_alert.
PlayroomAlertRow(id, p) ==
    [id |-> id, pet_id |-> p.pet_id, room_id |-> p.room_id, kind |-> p.kind,
     severity |-> p.severity, state |-> p.state,
     evidence_url |-> HttpUrlStr(p.evidence_url), ts |-> p.ts]

\* Variant: the caller's arguments land one parameter further, so that the
\* severity is stored as the state and the kind as the room.
DerivedAlertRowShifted(id, pet, kind, sev) ==
    [id |-> id, pet_id |-> pet, room_id |-> kind, kind |-> kind,
     severity |-> sev, state |-> sev, evidence_url |-> NoUrl,
     ts |-> utcnow]

\* AlertRecord(...) in create_alert_from_event, with the defaults of its
\* parameters state, room_id, evidence_url and ts.
DerivedAlertRow(id, pet, kind, sev) ==
    [id |-> id, pet_id |-> pet, room_id |-> NULL, kind |-> kind,
     severity |-> sev, state |-> "open", evidence_url |-> NoUrl,
     ts |-> utcnow]

\* ------------------------------------------------------------ the sessions
RowsOf(pend, tbl) ==
    LET sel == SelectSeq(pend, LAMBDA x : x.tbl = tbl)
    IN  [i \in 1..Len(sel) |-> sel[i].row]

IdsOf(pend) == { pend[i].row.id : i \in 1..Len(pend) }

\* Variant: a row equal to a committed event in all but its key is not
\* added again (an idempotent store).
session_add_unless_stored(ss, r, tbl, row) ==
    IF tbl = "events"
       /\ \E i \in 1..Len(events) : [events[i] EXCEPT !.id = row.id] = row
    THEN ss
    ELSE [ss EXCEPT ![r] = Append(@, [tbl |-> tbl, row |-> row])]

\* session.add(record).
session_add(ss, r, tbl, row) ==
    [ss EXCEPT ![r] = Append(@, [tbl |-> tbl, row |-> row])]

\* Variant: one Session object shared by all handlers.
session_rollback_shared(ss, r) == [x \in DOMAIN ss |-> <<>>]

\* session.rollback() in session_scope: drops what this session holds.
session_rollback(ss, r) == [ss EXCEPT ![r] = <<>>]

\* ------------------------------------------------------------- the handlers
IdleL == [pc |-> "idle", msg |-> LitterBase, evId |-> 0, wrote |-> {},
          outcome |-> "none", stage |-> "none"]
IdleP == [pc |-> "idle", msg |-> PlayroomBase, wrote |-> {},
          outcome |-> "none", stage |-> "none"]

\* ---- the API process at rest
\* SearchCandidate items of the fixture file, ranked by descending score.
Candidate(i) ==
    [pet_id |-> i, score |-> 100 - 10 * i,
     band |-> IF i = 1 THEN "strong" ELSE IF i = 2 THEN "moderate" ELSE "weak"]

Fixture(n) == [i \in 1..n |-> Candidate(i)]

\* Settings.database_url is a PostgreSQL URL (foreign keys enforced) or the
\* default SQLite file (not enforced: no PRAGMA foreign_keys is issued);
\* Settings.search_fixture names a file of 0..MaxFixture candidates (0 also
\* stands for a missing file).
Configs ==
    { [foreign_keys |-> f, fixture |-> Fixture(n)] :
        f \in BOOLEAN, n \in 0..MaxFixture }

DefaultConfig == [foreign_keys |-> FALSE, fixture |-> Fixture(0)]

\* A case_id that no case ever had.
NoCase == 0

IdleUpload == [pc |-> "idle", case_id |-> NoCase, contents |-> "",
               status |-> 0, row |-> 0]
IdleReview == [pc |-> "idle", case_id |-> NoCase, status |-> 0, row |-> 0]
IdleErase == [pc |-> "idle", case_id |-> NoCase, loaded |-> {}, status |-> 0,
              deleted |-> FALSE]

\* The bodies a client may send to POST /v1/search: top_k absent, null or
\* an integer.
TopKInputs ==
    { [given |-> "absent", v |-> 0], [given |-> "null", v |-> 0] }
      \cup { [given |-> "int", v |-> n] : n \in 0..(MaxFixture + 1) }

NoSearch == [request |-> [given |-> "absent", v |-> 0], status |-> 0,
             candidates |-> <<>>]

\* The lru_cache before the first call of _cached_candidates.
NotLoaded == [loaded |-> FALSE, value |-> <<>>]

ApiAtRest ==
    /\ cases = {} /\ photos = {} /\ reviews = {}
    /\ upload = IdleUpload /\ review = IdleReview /\ erase = IdleErase

\* The consumer is started; the API process is not.
Init ==
    /\ ApiAtRest
    /\ served = [up |-> FALSE, requests |-> 0, created |-> {},
                 search |-> NoSearch]
    /\ config = DefaultConfig
    /\ cache = NotLoaded
    /\ mainpc = "start"
    /\ litterQ = <<>>
    /\ playQ = <<>>
    /\ litter = IdleL
    /\ play = IdleP
    /\ sessions = [r \in Routes |-> <<>>]
    /\ events = <<>>
    /\ alerts = <<>>
    /\ nextId = 1
    /\ hist = [delivered |-> 0, completed |-> 0, faults |-> 0,
               litterFaults |-> 0, nValid |-> 0, nBreach |-> 0,
               derived |-> {}, atCancel |-> <<>>,
               seqEvents |-> EmptyBag, seqAlerts |-> EmptyBag]

\* The rows that handling message m alone, from its receipt to the return of
\* its handler, leaves in a table, keys and clock readings set to 0; stage
\* is the commit of that invocation that failed, if one did.
OneByOneEvents(route, m, stage) ==
    IF route = "litter" /\ Decodes(m) /\ LitterValid(m) /\ stage # "event"
    THEN SetToBag({EventRow(0, LitterSubject, m)})
    ELSE EmptyBag

OneByOneAlerts(route, m, stage) ==
    IF stage \in {"event", "alert"} \/ ~Decodes(m)
    THEN EmptyBag
    ELSE IF route = "playroom"
    THEN IF PlayroomValid(m)
         THEN SetToBag({PlayroomAlertRow(0, m)})
         ELSE EmptyBag
    ELSE IF LitterValid(m) /\ (duration_breach(m) \/ confidence_breach(m))
    THEN SetToBag({[DerivedAlertRow(0, m.pet_id, "litter-anomaly", severity(m))
                      EXCEPT !.ts = 0]})
    ELSE EmptyBag

\* What a session.commit() statement writes: everything the session holds.
\* Variant: record_litter_event leaves the commit to its caller.
record_litter_event_no_commit(pend) == <<>>

\* record_litter_event: session.commit() after session.add(record).
record_litter_event_commit(pend) == pend

\* create_alert_from_event: session.commit() after session.add(record).
create_alert_commit(pend) == pend

\* record_playroom_alert: session.commit() after session.add(record).
record_playroom_alert_commit(pend) == pend

\* The dispatch of one message to its callback is enabled while the
\* subscription exists (until nc.drain() has finished).
Dispatching == mainpc \in {"loop", "draining"}

\* A storage fault may make a commit fail.
MayFail == hist.faults < MaxFaults

\* ---- handle_litter_event
\* decode, validate; on ValidationError log and return; else open a session
\* and, in record_litter_event, record = EventRecordORM(...);
\* session.add(record).
L_Receive ==
    /\ Dispatching
    /\ litter.pc = "idle"
    /\ litterQ # <<>>
    /\ LET m == Head(litterQ) IN
        /\ litterQ' = Tail(litterQ)
        /\ litter' =
             IF ~Decodes(m)
             THEN [IdleL EXCEPT !.pc = "done", !.msg = m, !.outcome = "raised",
                                !.stage = "decode"]
             ELSE IF ~LitterValid(m)
             THEN [IdleL EXCEPT !.pc = "done", !.msg = m, !.outcome = "dropped",
                                !.stage = "validate"]
             ELSE [IdleL EXCEPT !.pc = "commit_event", !.msg = m,
                                !.evId = nextId]
        /\ sessions' =
             IF Decodes(m) /\ LitterValid(m)
             THEN session_add(sessions, "litter", "events",
                              EventRow(nextId, LitterSubject, m))
             ELSE sessions
        /\ nextId' = IF Decodes(m) /\ LitterValid(m) THEN nextId + 1 ELSE nextId
        /\ hist' =
             IF Decodes(m) /\ LitterValid(m)
             THEN [hist EXCEPT
                     !.nValid = @ + 1,
                     !.nBreach = @ + IF \/ m.duration_s > LITTER_DURATION_THRESHOLD
                                        \/ m.conf < LITTER_CONF_THRESHOLD
                                     THEN 1 ELSE 0]
             ELSE hist
    /\ UNCHANGED <<mainpc, playQ, play, events, alerts>>
    /\ UNCHANGED api_vars

\* record_litter_event: session.commit(); then the rule of lines 47-50 and,
\* past a threshold, create_alert_from_event(session, pet_id,
\* kind="litter-anomaly", severity): record = AlertRecord(...);
\* session.add(record).
L_CommitEvent ==
    /\ Dispatching
    /\ litter.pc = "commit_event"
    /\ \/ LET w == record_litter_event_commit(sessions["litter"])
              left == SelectSeq(sessions["litter"],
                                LAMBDA x : x.row.id \notin IdsOf(w))
              breach == duration_breach(litter.msg)
                          \/ confidence_breach(litter.msg)
          IN
            /\ events' = events \o RowsOf(w, "events")
            /\ alerts' = alerts \o RowsOf(w, "alerts")
            /\ sessions' =
                 IF breach
                 THEN session_add([sessions EXCEPT !["litter"] = left],
                        "litter", "alerts",
                        DerivedAlertRow(nextId, litter.msg.pet_id,
                                        "litter-anomaly", severity(litter.msg)))
                 ELSE [sessions EXCEPT !["litter"] = left]
            /\ nextId' = IF breach THEN nextId + 1 ELSE nextId
            /\ hist' = IF breach
                       THEN [hist EXCEPT
                               !.derived = @ \cup {<<nextId, litter.evId>>}]
                       ELSE hist
            /\ litter' = [litter EXCEPT
                   !.wrote = @ \cup IdsOf(w),
                   !.pc = IF breach THEN "commit_alert" ELSE "scope_commit"]
       \/ /\ MayFail
          /\ hist' = [hist EXCEPT !.faults = @ + 1, !.litterFaults = @ + 1]
          /\ litter' = [litter EXCEPT !.pc = "rollback", !.stage = "event"]
          /\ UNCHANGED <<sessions, events, alerts, nextId>>
    /\ UNCHANGED <<mainpc, litterQ, playQ, play>>
    /\ UNCHANGED api_vars

\* create_alert_from_event: session.commit().
L_CommitAlert ==
    /\ Dispatching
    /\ litter.pc = "commit_alert"
    /\ \/ LET w == create_alert_commit(sessions["litter"]) IN
            /\ events' = events \o RowsOf(w, "events")
            /\ alerts' = alerts \o RowsOf(w, "alerts")
            /\ sessions' = [sessions EXCEPT !["litter"] =
                              SelectSeq(@, LAMBDA x : x.row.id \notin IdsOf(w))]
            /\ litter' = [litter EXCEPT !.wrote = @ \cup IdsOf(w),
                                        !.pc = "scope_commit"]
            /\ UNCHANGED hist
       \/ /\ MayFail
          /\ hist' = [hist EXCEPT !.faults = @ + 1, !.litterFaults = @ + 1]
          /\ litter' = [litter EXCEPT !.pc = "rollback", !.stage = "alert"]
          /\ UNCHANGED <<sessions, events, alerts>>
    /\ UNCHANGED <<mainpc, litterQ, playQ, play, nextId>>
    /\ UNCHANGED api_vars

\* session_scope: session.commit() after the block, then session.close().
L_ScopeCommit ==
    /\ Dispatching
    /\ litter.pc = "scope_commit"
    /\ LET w == sessions["litter"] IN
        /\ events' = events \o RowsOf(w, "events")
        /\ alerts' = alerts \o RowsOf(w, "alerts")
        /\ sessions' = [sessions EXCEPT !["litter"] = <<>>]
        /\ litter' = [litter EXCEPT !.wrote = @ \cup IdsOf(w), !.pc = "done",
                                    !.outcome = "ok"]
    /\ UNCHANGED <<mainpc, litterQ, playQ, play, nextId, hist>>
    /\ UNCHANGED api_vars

\* session_scope: except Exception: session.rollback(); raise; session.close().
L_Rollback ==
    /\ Dispatching
    /\ litter.pc = "rollback"
    /\ sessions' = session_rollback(sessions, "litter")
    /\ litter' = [litter EXCEPT !.pc = "done", !.outcome = "raised"]
    /\ UNCHANGED <<mainpc, litterQ, playQ, play, events, alerts, nextId, hist>>
    /\ UNCHANGED api_vars

\* The callback has returned or raised: the bus client takes the next message.
L_Return ==
    /\ litter.pc = "done"
    /\ litter' = IdleL
    /\ hist' = [hist EXCEPT
          !.completed = @ + 1,
          !.seqEvents = @ (+) OneByOneEvents("litter", litter.msg, litter.stage),
          !.seqAlerts = @ (+) OneByOneAlerts("litter", litter.msg, litter.stage)]
    /\ UNCHANGED <<mainpc, litterQ, playQ, play, sessions, events, alerts,
                   nextId>>
    /\ UNCHANGED api_vars

\* ---- handle_playroom_alert
\* decode, validate; on ValidationError log and return; else open a session
\* and, in record_playroom_alert, record = AlertRecord(...);
\* session.add(record).
P_Receive ==
    /\ Dispatching
    /\ play.pc = "idle"
    /\ playQ # <<>>
    /\ LET m == Head(playQ) IN
        /\ playQ' = Tail(playQ)
        /\ play' =
             IF ~Decodes(m)
             THEN [IdleP EXCEPT !.pc = "done", !.msg = m, !.outcome = "raised",
                                !.stage = "decode"]
             ELSE IF ~PlayroomValid(m)
             THEN [IdleP EXCEPT !.pc = "done", !.msg = m, !.outcome = "dropped",
                                !.stage = "validate"]
             ELSE [IdleP EXCEPT !.pc = "commit_alert", !.msg = m]
        /\ sessions' =
             IF Decodes(m) /\ PlayroomValid(m)
             THEN session_add(sessions, "playroom", "alerts",
                              PlayroomAlertRow(nextId, m))
             ELSE sessions
        /\ nextId' =
             IF Decodes(m) /\ PlayroomValid(m) THEN nextId + 1 ELSE nextId
    /\ UNCHANGED <<mainpc, litterQ, litter, events, alerts, hist>>
    /\ UNCHANGED api_vars

\* record_playroom_alert: session.commit().
P_CommitAlert ==
    /\ Dispatching
    /\ play.pc = "commit_alert"
    /\ \/ LET w == record_playroom_alert_commit(sessions["playroom"]) IN
            /\ events' = events \o RowsOf(w, "events")
            /\ alerts' = alerts \o RowsOf(w, "alerts")
            /\ sessions' = [sessions EXCEPT !["playroom"] =
                              SelectSeq(@, LAMBDA x : x.row.id \notin IdsOf(w))]
            /\ play' = [play EXCEPT !.wrote = @ \cup IdsOf(w),
                                    !.pc = "scope_commit"]
            /\ UNCHANGED hist
       \/ /\ MayFail
          /\ hist' = [hist EXCEPT !.faults = @ + 1]
          /\ play' = [play EXCEPT !.pc = "rollback", !.stage = "alert"]
          /\ UNCHANGED <<sessions, events, alerts>>
    /\ UNCHANGED <<mainpc, litterQ, playQ, litter, nextId>>
    /\ UNCHANGED api_vars

\* session_scope: session.commit() after the block, then session.close().
P_ScopeCommit ==
    /\ Dispatching
    /\ play.pc = "scope_commit"
    /\ LET w == sessions["playroom"] IN
        /\ events' = events \o RowsOf(w, "events")
        /\ alerts' = alerts \o RowsOf(w, "alerts")
        /\ sessions' = [sessions EXCEPT !["playroom"] = <<>>]
        /\ play' = [play EXCEPT !.wrote = @ \cup IdsOf(w), !.pc = "done",
                                !.outcome = "ok"]
    /\ UNCHANGED <<mainpc, litterQ, playQ, litter, nextId, hist>>
    /\ UNCHANGED api_vars

\* session_scope: except Exception: session.rollback(); raise; session.close().
P_Rollback ==
    /\ Dispatching
    /\ play.pc = "rollback"
    /\ sessions' = session_rollback(sessions, "playroom")
    /\ play' = [play EXCEPT !.pc = "done", !.outcome = "raised"]
    /\ UNCHANGED <<mainpc, litterQ, playQ, litter, events, alerts, nextId,
                   hist>>
    /\ UNCHANGED api_vars

\* The callback has returned or raised: the bus client takes the next message.
P_Return ==
    /\ play.pc = "done"
    /\ play' = IdleP
    /\ hist' = [hist EXCEPT
          !.completed = @ + 1,
          !.seqAlerts = @ (+) OneByOneAlerts("playroom", play.msg, play.stage)]
    /\ UNCHANGED <<mainpc, litterQ, playQ, litter, sessions, events, alerts,
                   nextId>>
    /\ UNCHANGED api_vars

\* ---- main
\* nats.connect and the two subscriptions.
Subscribe ==
    /\ mainpc = "start"
    /\ mainpc' = "loop"
    /\ UNCHANGED <<litterQ, playQ, litter, play, sessions, events, alerts,
                   nextId, hist>>
    /\ UNCHANGED api_vars

\* The bus delivers a message on events.litter.*; the same message may be
\* delivered again (at-least-once delivery).
DeliverLitter ==
    /\ mainpc = "loop"
    /\ hist.delivered < MaxDeliveries
    /\ \E m \in LitterMsgs : litterQ' = Append(litterQ, m)
    /\ hist' = [hist EXCEPT !.delivered = @ + 1]
    /\ UNCHANGED <<mainpc, playQ, litter, play, sessions, events, alerts,
                   nextId>>
    /\ UNCHANGED api_vars

\* The bus delivers a message on playroom.alerts.*.
DeliverPlayroom ==
    /\ mainpc = "loop"
    /\ hist.delivered < MaxDeliveries
    /\ \E m \in PlayroomMsgs : playQ' = Append(playQ, m)
    /\ hist' = [hist EXCEPT !.delivered = @ + 1]
    /\ UNCHANGED <<mainpc, litterQ, litter, play, sessions, events, alerts,
                   nextId>>
    /\ UNCHANGED api_vars

\* asyncio.CancelledError reaches the sleep loop: the except clause passes
\* and the finally clause starts nc.drain(), which unsubscribes.
Cancel ==
    /\ mainpc = "loop"
    /\ mainpc' = "draining"
    /\ hist' = [hist EXCEPT !.atCancel = <<hist.delivered, hist.completed>>]
    /\ UNCHANGED <<litterQ, playQ, litter, play, sessions, events, alerts,
                   nextId>>
    /\ UNCHANGED api_vars

\* Variant: nc.close() in place of nc.drain(): nothing is waited for.
close_at_once(lq, pq, l, p) == TRUE

\* nc.drain() waits until every received message has been handled.
drain_may_close(lq, pq, l, p) ==
    /\ lq = <<>> /\ pq = <<>>
    /\ l.pc = "idle" /\ p.pc = "idle"

\* nc.drain() closes the connection; main returns.
DrainDone ==
    /\ mainpc = "draining"
    /\ drain_may_close(litterQ, playQ, litter, play)
    /\ mainpc' = "returned"
    /\ UNCHANGED <<litterQ, playQ, litter, play, sessions, events, alerts,
                   nextId, hist>>
    /\ UNCHANGED api_vars

Next ==
    \/ Subscribe \/ DeliverLitter \/ DeliverPlayroom \/ Cancel \/ DrainDone
    \/ L_Receive \/ L_CommitEvent \/ L_CommitAlert \/ L_ScopeCommit
    \/ L_Rollback \/ L_Return
    \/ P_Receive \/ P_CommitAlert \/ P_ScopeCommit \/ P_Rollback
    \/ P_Return

Spec == Init /\ [][Next]_vars

\* ------------------------------------------------------------- the HTTP API
\* Requests are served once on_startup has configured the database.
MayServe == served.up /\ served.requests < MaxRequests

\* The case_id of a request: a key that some case has or had, or none.
Targets == served.created \cup {NoCase}

\* What an INSERT of a row with this case_id meets at its commit: the
\* foreign key is checked only where the database enforces it.
ForeignKeyHolds(c) == ~config.foreign_keys \/ c \in cases

\* The rows of a table that go with case c at the commit of delete_case:
\* those the ORM cascade had loaded and, where the database enforces the
\* foreign key, every row of the case (ON DELETE CASCADE).
DeletedWithCase(c, loaded, rows) ==
    { r \in rows : r.id \in loaded \/ (config.foreign_keys /\ r.case_id = c) }

\* POST /v1/cases: create_case adds the row and commits.
CreateCase ==
    /\ MayServe
    /\ cases' = cases \cup {nextId}
    /\ nextId' = nextId + 1
    /\ served' = [served EXCEPT !.requests = @ + 1,
                                !.created = @ \cup {nextId}]
    /\ UNCHANGED <<handler_vars, events, alerts, photos, reviews, upload,
                   review, erase, cache, config>>

\* POST /v1/cases/{case_id}/photos, up to the await: get_case, 404 when
\* there is no such case.
UploadCheck ==
    /\ MayServe
    /\ upload.pc = "idle"
    /\ \E c \in Targets, b \in {"", "jpeg"} :
          upload' = IF c \notin cases
                    THEN [IdleUpload EXCEPT !.case_id = c, !.contents = b,
                                            !.status = 404]
                    ELSE [IdleUpload EXCEPT !.pc = "read", !.case_id = c,
                                            !.contents = b]
    /\ served' = [served EXCEPT !.requests = @ + 1]
    /\ UNCHANGED <<handler_vars, events, alerts, nextId, cases, photos,
                   reviews, review, erase, cache, config>>

\* upload_photo after await file.read(): 400 on an empty upload, else
\* add_photo adds the row and commits (an IntegrityError of the commit is
\* answered 500).
UploadStore ==
    /\ served.up
    /\ upload.pc = "read"
    /\ IF upload.contents = ""
       THEN /\ upload' = [upload EXCEPT !.pc = "idle", !.status = 400]
            /\ UNCHANGED <<photos, nextId>>
       ELSE IF ~ForeignKeyHolds(upload.case_id)
       THEN /\ upload' = [upload EXCEPT !.pc = "idle", !.status = 500]
            /\ UNCHANGED <<photos, nextId>>
       ELSE /\ photos' = photos \cup
                           {[id |-> nextId, case_id |-> upload.case_id]}
            /\ nextId' = nextId + 1
            /\ upload' = [upload EXCEPT !.pc = "idle", !.status = 201,
                                        !.row = nextId]
    /\ UNCHANGED <<handler_vars, events, alerts, cases, reviews, review,
                   erase, cache, served, config>>

\* POST /internal/cases/{case_id}/reviews: get_case, 404 when there is no
\* such case.
ReviewCheck ==
    /\ MayServe
    /\ review.pc = "idle"
    /\ \E c \in Targets :
          review' = IF c \notin cases
                    THEN [IdleReview EXCEPT !.case_id = c, !.status = 404]
                    ELSE [IdleReview EXCEPT !.pc = "store", !.case_id = c]
    /\ served' = [served EXCEPT !.requests = @ + 1]
    /\ UNCHANGED <<handler_vars, events, alerts, nextId, cases, photos,
                   reviews, upload, erase, cache, config>>

\* record_review: record_candidate_review adds the row and commits.
ReviewStore ==
    /\ served.up
    /\ review.pc = "store"
    /\ IF ~ForeignKeyHolds(review.case_id)
       THEN /\ review' = [review EXCEPT !.pc = "idle", !.status = 500]
            /\ UNCHANGED <<reviews, nextId>>
       ELSE /\ reviews' = reviews \cup
                            {[id |-> nextId, case_id |-> review.case_id]}
            /\ nextId' = nextId + 1
            /\ review' = [review EXCEPT !.pc = "idle", !.status = 201,
                                        !.row = nextId]
    /\ UNCHANGED <<handler_vars, events, alerts, cases, photos, upload,
                   erase, cache, served, config>>

\* POST /internal/cases/{case_id}/erase: delete_case, get_case; deleted =
\* False when there is no such case; else session.delete(case), whose
\* cascade loads case.photos and case.reviews.
EraseBegin ==
    /\ MayServe
    /\ erase.pc = "idle"
    /\ \E c \in Targets :
          erase' = IF c \notin cases
                   THEN [IdleErase EXCEPT !.case_id = c, !.status = 200]
                   ELSE [IdleErase EXCEPT
                           !.pc = "commit", !.case_id = c,
                           !.loaded = { r.id : r \in
                              { x \in photos \cup reviews : x.case_id = c } }]
    /\ served' = [served EXCEPT !.requests = @ + 1]
    /\ UNCHANGED <<handler_vars, events, alerts, nextId, cases, photos,
                   reviews, upload, review, cache, config>>

\* delete_case: session.commit() deletes the loaded photos and reviews and
\* the case; deleted = True.
EraseCommit ==
    /\ served.up
    /\ erase.pc = "commit"
    /\ cases' = cases \ {erase.case_id}
    /\ photos' = photos \ DeletedWithCase(erase.case_id, erase.loaded, photos)
    /\ reviews' =
         reviews \ DeletedWithCase(erase.case_id, erase.loaded, reviews)
    /\ erase' = [erase EXCEPT !.pc = "idle", !.status = 200,
                              !.deleted = TRUE]
    /\ UNCHANGED <<handler_vars, events, alerts, nextId, upload, review,
                   cache, served, config>>

\* SearchRequest validation: top_k, when an integer, is at least 1 (ge=1).
SearchRequestValid(r) == r.given = "int" => r.v >= 1

\* request.top_k after validation; 0 stands for None (both are falsy).
top_k(r) == IF r.given = "absent" THEN DEFAULT_TOP_K ELSE r.v

\* _cached_candidates under lru_cache: the file is read on the first call.
cached_candidates(c) ==
    IF c.loaded THEN c ELSE [loaded |-> TRUE, value |-> config.fixture]

\* load_search_candidates: a deep copy of every cached candidate.
load_search_candidates(c) == [i \in 1..Len(c.value) |-> c.value[i]]

\* Variant: the slice stops one candidate early.
slice_short(s, k) == SubSeq(s, 1, IF k - 1 < Len(s) THEN k - 1 ELSE Len(s))

\* candidates[:k] for k > 0.
slice(s, k) == SubSeq(s, 1, IF k < Len(s) THEN k ELSE Len(s))

\* POST /v1/search.
Search ==
    /\ MayServe
    /\ \E r \in TopKInputs :
         IF ~SearchRequestValid(r)
         THEN /\ served' = [served EXCEPT
                    !.requests = @ + 1,
                    !.search = [request |-> r, status |-> 422,
                                candidates |-> <<>>]]
              /\ UNCHANGED cache
         ELSE LET c == cached_candidates(cache)
                  candidates == load_search_candidates(c)
                  k == IF top_k(r) # 0 THEN top_k(r) ELSE Len(candidates)
              IN  /\ cache' = c
                  /\ served' = [served EXCEPT
                        !.requests = @ + 1,
                        !.search =
                           IF k <= 0
                           THEN [request |-> r, status |-> 422,
                                 candidates |-> <<>>]
                           ELSE [request |-> r, status |-> 200,
                                 candidates |-> slice(candidates, k)]]
    /\ UNCHANGED <<handler_vars, events, alerts, nextId, cases, photos,
                   reviews, upload, review, erase, config>>

\* The API process is started, under any deployment (on_startup has
\* configured the database and preloaded the candidates), over a store in
\* which an earlier run of the consumer has left one event, its derived
\* alert and one playroom alert; the consumer has returned.
ApiInit ==
    /\ ApiAtRest
    /\ served = [up |-> TRUE, requests |-> 0, created |-> {},
                 search |-> NoSearch]
    /\ config \in Configs
    /\ cache = cached_candidates(NotLoaded)
    /\ mainpc = "returned"
    /\ litterQ = <<>> /\ playQ = <<>>
    /\ litter = IdleL /\ play = IdleP
    /\ sessions = [r \in Routes |-> <<>>]
    /\ events = <<EventRow(1, LitterSubject, LitterBase)>>
    /\ alerts = <<[id |-> 2, pet_id |-> "p1", room_id |-> NULL,
                   kind |-> "litter-anomaly", severity |-> "moderate",
                   state |-> "open", evidence_url |-> NoUrl, ts |-> 102],
                  PlayroomAlertRow(3, PlayroomBase)>>
    /\ nextId = 4
    /\ hist = [delivered |-> 2, completed |-> 2, faults |-> 0,
               litterFaults |-> 0, nValid |-> 1, nBreach |-> 1,
               derived |-> {<<2, 1>>}, atCancel |-> <<2, 2>>,
               seqEvents |-> OneByOneEvents("litter", LitterBase, "none"),
               seqAlerts |-> OneByOneAlerts("litter", LitterBase, "none")
                             (+) OneByOneAlerts("playroom", PlayroomBase,
                                                "none")]

ApiNext ==
    \/ CreateCase \/ UploadCheck \/ UploadStore \/ ReviewCheck \/ ReviewStore
    \/ EraseBegin \/ EraseCommit \/ Search

SpecApi == ApiInit /\ [][ApiNext]_vars

\* The two processes over the one store, each run on its own: the consumer
\* from an empty store, or the API over what the consumer has stored.
StoreInit == Init \/ ApiInit

StoreNext == Next \/ ApiNext

SpecStore == StoreInit /\ [][StoreNext]_vars

\* ---------------------------------------------------------- the properties
AlertIdx == 1..Len(alerts)
EventIdx == 1..Len(events)

\* handle_litter_event has returned normally after storing what it had to.
LitterReturned == litter.pc = "done" /\ litter.outcome = "ok"

\* handle_playroom_alert has returned normally after storing its alert.
PlayroomReturned == play.pc = "done" /\ play.outcome = "ok"

\* The alerts this handle_litter_event invocation has committed.
LitterWroteAlerts == { i \in AlertIdx : alerts[i].id \in litter.wrote }

\* C1: when handle_litter_event returns for an event whose conf is below the
\* confidence threshold, it has stored exactly one alert, a "litter-anomaly"
\* of severity "high", whatever the duration.
C1_LowConfidenceIsHigh ==
    (LitterReturned /\ litter.msg.conf < LITTER_CONF_THRESHOLD) =>
        /\ Cardinality(LitterWroteAlerts) = 1
        /\ \A i \in LitterWroteAlerts :
              alerts[i].kind = "litter-anomaly" /\ alerts[i].severity = "high"

\* C1 witness: a low-confidence event of a duration above the threshold has
\* been handled, after one of a duration below it.
C1_Witness ==
    /\ LitterReturned
    /\ litter.msg.conf < LITTER_CONF_THRESHOLD
    /\ litter.msg.duration_s > LITTER_DURATION_THRESHOLD
    /\ LitterWroteAlerts # {}
    /\ \E e \in EventIdx :
          /\ events[e].conf < LITTER_CONF_THRESHOLD
          /\ events[e].duration_s < LITTER_DURATION_THRESHOLD

\* C2: when handle_litter_event returns for an event whose duration is above
\* the duration threshold and whose conf is at or above the confidence
\* threshold, it has stored exactly one alert, of severity "moderate".
C2_LongDurationIsModerate ==
    (/\ LitterReturned
     /\ litter.msg.duration_s > LITTER_DURATION_THRESHOLD
     /\ litter.msg.conf >= LITTER_CONF_THRESHOLD) =>
        /\ Cardinality(LitterWroteAlerts) = 1
        /\ \A i \in LitterWroteAlerts :
              alerts[i].kind = "litter-anomaly"
              /\ alerts[i].severity = "moderate"

\* C2 witness: an event of duration 200 and conf exactly at the threshold
\* has been handled and its alert stored.
C2_Witness ==
    /\ LitterReturned
    /\ litter.msg.duration_s > LITTER_DURATION_THRESHOLD
    /\ litter.msg.conf = LITTER_CONF_THRESHOLD
    /\ LitterWroteAlerts # {}

\* C3: when handle_litter_event returns for an event whose duration is at or
\* below the duration threshold and whose conf is at or above the confidence
\* threshold, the event row is stored and the handler has stored no alert.
C3_NoBreachNoAlert ==
    (/\ LitterReturned
     /\ litter.msg.duration_s <= LITTER_DURATION_THRESHOLD
     /\ litter.msg.conf >= LITTER_CONF_THRESHOLD) =>
        /\ \E e \in EventIdx :
              /\ events[e].id = litter.evId
              /\ events[e].duration_s = litter.msg.duration_s
              /\ events[e].conf = litter.msg.conf
              /\ events[e].pet_id = litter.msg.pet_id
        /\ litter.wrote = {litter.evId}
        /\ LitterWroteAlerts = {}

\* C3 witness: an event with both values exactly at their thresholds has
\* been handled.
C3_Witness ==
    /\ LitterReturned
    /\ litter.msg.duration_s = LITTER_DURATION_THRESHOLD
    /\ litter.msg.conf = LITTER_CONF_THRESHOLD
    /\ \E e \in EventIdx : events[e].id = litter.evId

\* The alerts this handle_playroom_alert invocation has committed.
PlayroomWroteAlerts == { i \in AlertIdx : alerts[i].id \in play.wrote }

\* C4: a message that fails validation (malformed JSON, which includes bytes
\* that are no UTF-8 text, a missing or unknown member, a wrong type, a
\* non-URL evidence_url) is dropped on either route: the handler returns
\* normally and has written nothing.
C4_InvalidIsDropped ==
    /\ (litter.pc = "done" /\ ~LitterValid(litter.msg)) =>
          /\ litter.outcome = "dropped"
          /\ litter.wrote = {}
          /\ sessions["litter"] = <<>>
    /\ (play.pc = "done" /\ ~PlayroomValid(play.msg)) =>
          /\ play.outcome = "dropped"
          /\ play.wrote = {}
          /\ sessions["playroom"] = <<>>

\* The part of C4 that the code keeps: a message whose bytes decode but
\* which fails validation is dropped, and no message that fails to decode
\* or to validate writes a row.
DecodedInvalidIsDropped ==
    /\ (litter.pc = "done" /\ ~LitterValid(litter.msg)) =>
          /\ Decodes(litter.msg) => litter.outcome = "dropped"
          /\ litter.wrote = {}
          /\ sessions["litter"] = <<>>
    /\ (play.pc = "done" /\ ~PlayroomValid(play.msg)) =>
          /\ Decodes(play.msg) => play.outcome = "dropped"
          /\ play.wrote = {}
          /\ sessions["playroom"] = <<>>

\* C5: when handle_playroom_alert returns for a valid alert, it has stored
\* exactly one alert row, whose pet_id, room_id, kind, severity, state,
\* evidence_url and ts are those of the message, and no event row.
C5_PlayroomAlertVerbatim ==
    PlayroomReturned =>
        /\ Cardinality(play.wrote) = 1
        /\ Cardinality(PlayroomWroteAlerts) = 1
        /\ \A i \in PlayroomWroteAlerts :
              /\ alerts[i].pet_id = play.msg.pet_id
              /\ alerts[i].room_id = play.msg.room_id
              /\ alerts[i].kind = play.msg.kind
              /\ alerts[i].severity = play.msg.severity
              /\ alerts[i].state = play.msg.state
              /\ alerts[i].evidence_url = play.msg.evidence_url
              /\ alerts[i].ts = play.msg.ts
        /\ \A e \in EventIdx : events[e].id \notin play.wrote

\* The part of C5 that the code keeps: one alert row and no event row, every
\* member but evidence_url as in the message, evidence_url as str(HttpUrl)
\* renders it.
PlayroomAlertNormalisedUrl ==
    PlayroomReturned =>
        /\ Cardinality(play.wrote) = 1
        /\ Cardinality(PlayroomWroteAlerts) = 1
        /\ \A i \in PlayroomWroteAlerts :
              /\ alerts[i].pet_id = play.msg.pet_id
              /\ alerts[i].room_id = play.msg.room_id
              /\ alerts[i].kind = play.msg.kind
              /\ alerts[i].severity = play.msg.severity
              /\ alerts[i].state = play.msg.state
              /\ alerts[i].evidence_url[1] = play.msg.evidence_url[1]
              /\ alerts[i].evidence_url[2] = play.msg.evidence_url[2]
              /\ alerts[i].evidence_url[3] \in {play.msg.evidence_url[3], "/"}
              /\ alerts[i].ts = play.msg.ts
        /\ \A e \in EventIdx : events[e].id \notin play.wrote

\* The litter route is at rest: nothing received is waiting or being handled.
LitterAtRest == litter.pc = "idle" /\ litterQ = <<>>

LitterAnomalyAlerts == { i \in AlertIdx : alerts[i].kind = "litter-anomaly" }

\* C6: when the litter route is at rest and no commit of it has failed, the
\* events table holds one row per valid litter event delivered and the
\* alerts table one "litter-anomaly" row per valid delivery past a
\* threshold, redeliveries of one message counted each time.
C6_OneRowPerDelivery ==
    (LitterAtRest /\ hist.litterFaults = 0) =>
        /\ Len(events) = hist.nValid
        /\ Cardinality(LitterAnomalyAlerts) = hist.nBreach
        /\ \A a, b \in hist.derived : a[2] = b[2] => a[1] = b[1]

\* C6 witness: one message was delivered twice; two event rows and two alert
\* rows that differ in their keys only are stored.
C6_Witness ==
    /\ LitterAtRest /\ hist.litterFaults = 0
    /\ hist.nBreach = 2
    /\ Len(events) = 2
    /\ [events[1] EXCEPT !.id = 0] = [events[2] EXCEPT !.id = 0]
    /\ Cardinality(LitterAnomalyAlerts) = 2

DerivedAlertIds == { d[1] : d \in hist.derived }

\* C7: every stored alert derived from a litter event has kind
\* "litter-anomaly", state "open", a severity of moderate or high, no
\* room_id, no evidence_url, and the pet_id of the (stored) event it was
\* derived from.
C7_DerivedAlertShape ==
    \A i \in AlertIdx : \A d \in hist.derived :
        alerts[i].id = d[1] =>
            /\ alerts[i].kind = "litter-anomaly"
            /\ alerts[i].state = "open"
            /\ alerts[i].severity \in {"moderate", "high"}
            /\ alerts[i].room_id = NULL
            /\ alerts[i].evidence_url = NoUrl
            /\ \E e \in EventIdx :
                  events[e].id = d[2] /\ events[e].pet_id = alerts[i].pet_id

\* C7 witness: a derived alert for pet p2 is stored next to a playroom alert.
C7_Witness ==
    \E i, j \in AlertIdx :
        /\ alerts[i].id \in DerivedAlertIds
        /\ alerts[i].pet_id = "p2"
        /\ alerts[j].id \notin DerivedAlertIds

\* C8: the event row is committed before the derived alert is sent to the
\* store, and when the commit of the derived alert fails the event row
\* is still stored after the rollback of session_scope, while the alert is
\* not.
C8_EventSurvivesAlertFailure ==
    /\ litter.pc = "commit_alert" =>
          \E e \in EventIdx : events[e].id = litter.evId
    /\ (litter.pc \in {"rollback", "done"} /\ litter.stage = "alert") =>
          /\ \E e \in EventIdx :
                events[e] = EventRow(litter.evId, LitterSubject, litter.msg)
          /\ \A i \in AlertIdx : \A d \in hist.derived :
                d[2] = litter.evId => alerts[i].id # d[1]

\* C8 witness: the commit of a derived alert has failed, the rollback is
\* done and the handler has raised.
C8_Witness ==
    /\ litter.pc = "done"
    /\ litter.outcome = "raised"
    /\ litter.stage = "alert"
    /\ sessions["litter"] = <<>>
    /\ \E e \in EventIdx : events[e].id = litter.evId

LitterSide ==
    <<litterQ, litter, sessions["litter"], events,
      SelectSeq(alerts, LAMBDA a : a.id \in DerivedAlertIds)>>

PlayroomSide ==
    <<playQ, play, sessions["playroom"],
      SelectSeq(alerts, LAMBDA a : a.id \notin DerivedAlertIds)>>

\* C10: no step of one route, a validation or persistence error included,
\* changes anything of the other route: its queue, its handler, the content
\* of its session or the rows it has stored.
C10_RoutesIndependent ==
    [][LitterSide' = LitterSide \/ PlayroomSide' = PlayroomSide]_vars

\* C10 witness: the litter handler has raised on a failed commit while a
\* playroom alert was being handled, and that alert is stored as usual.
C10_Witness ==
    /\ litter.pc = "done" /\ litter.outcome = "raised"
    /\ PlayroomReturned
    /\ PlayroomWroteAlerts # {}

\* C11: a litter event with a negative duration_s is rejected by validation
\* (dropped, nothing written) and no stored event row has duration_s < 0.
C11_NegativeDurationRejected ==
    /\ \A e \in EventIdx : events[e].duration_s >= 0
    /\ (litter.pc = "done" /\ Decodes(litter.msg)
          /\ litter.msg.fields = LitterFields /\ litter.msg.wrong = {}
          /\ litter.msg.duration_s < 0) =>
          /\ litter.outcome = "dropped"
          /\ litter.wrote = {}

\* A litter event that lacks the member payload and nothing else.
OmitsPayloadOnly(m) ==
    /\ Decodes(m)
    /\ m.fields = LitterFields \ {"payload"}
    /\ m.wrong = {}

\* C12: a litter event that omits payload and is otherwise valid is
\* accepted: when its handler has returned without a failed commit, its
\* event row is stored with an empty payload map.
C12_PayloadDefaultsToEmpty ==
    (litter.pc = "done" /\ OmitsPayloadOnly(litter.msg)
       /\ litter.stage \notin {"event", "alert"}) =>
        /\ litter.outcome = "ok"
        /\ \E e \in EventIdx :
              /\ events[e].id \in litter.wrote
              /\ events[e].payload_json = {}

\* The Severity enumeration of the specification.
SeverityValues == {"low", "moderate", "high"}

\* C16: the severity of every stored alert, derived or reported by the
\* playroom, is one of low, moderate, high.
C16_SeverityInEnumeration ==
    \A i \in AlertIdx : alerts[i].severity \in SeverityValues

\* The multiset of the members of a sequence.
BagOfSeq(s) ==
    [x \in {s[i] : i \in DOMAIN s} |->
        Cardinality({i \in DOMAIN s : s[i] = x})]

\* The stored rows without what differs from one schedule to another: the
\* keys and the clock reading of a derived alert.
StoredEvents == [i \in EventIdx |-> [events[i] EXCEPT !.id = 0]]

StoredAlerts ==
    [i \in AlertIdx |->
        IF alerts[i].id \in DerivedAlertIds
        THEN [alerts[i] EXCEPT !.id = 0, !.ts = 0]
        ELSE [alerts[i] EXCEPT !.id = 0]]

\* Both routes are at rest.
AllAtRest ==
    /\ litterQ = <<>> /\ playQ = <<>>
    /\ litter.pc = "idle" /\ play.pc = "idle"

\* C14: however the steps of a handle_litter_event and of a
\* handle_playroom_alert invocation interleave, once both routes are at rest
\* the multiset of stored event rows and that of stored alert rows equal
\* those of handling the same messages one after another: no row lost,
\* duplicated or mixed between messages.
C14_InterleavingAsOneByOne ==
    AllAtRest =>
        /\ BagOfSeq(StoredEvents) = hist.seqEvents
        /\ BagOfSeq(StoredAlerts) = hist.seqAlerts

\* C14 witness: a playroom alert was received and stored between the
\* receipt of a litter event and the creation of its derived alert, and all
\* three rows are stored.
C14_Witness ==
    /\ AllAtRest
    /\ \E d \in hist.derived : \E i, j \in AlertIdx :
          /\ alerts[i].id = d[1]
          /\ alerts[j].id \notin DerivedAlertIds
          /\ d[2] < alerts[j].id /\ alerts[j].id < d[1]
          /\ \E e \in EventIdx : events[e].id = d[2]

\* What a search for the first k of the fixture's candidates must answer.
FirstOfFixture(k) ==
    SubSeq(config.fixture, 1,
           IF k < Len(config.fixture) THEN k ELSE Len(config.fixture))

\* C13: every search with top_k = k, k >= 1, is answered 200 with exactly
\* the first min(k, N) of the N fixture candidates in fixture order (k of
\* them when N >= k), and a search repeated with the same top_k is answered
\* with the same list.
C13_SearchReturnsFirstK ==
    [][LET a == served'.search IN
         /\ (a.request.given = "int" /\ a.request.v >= 1) =>
               /\ a.status = 200
               /\ a.candidates = FirstOfFixture(a.request.v)
               /\ Len(config.fixture) >= a.request.v =>
                     Len(a.candidates) = a.request.v
         /\ (a.request = served.search.request
               /\ a.status = 200 /\ served.search.status = 200) =>
               a.candidates = served.search.candidates]_vars

\* C13 witness: after an earlier request, a search with top_k = 2 over a
\* fixture of three candidates has returned the first two.
C13_Witness ==
    /\ served.requests >= 2
    /\ cache.loaded
    /\ Len(config.fixture) = 3
    /\ served.search.status = 200
    /\ served.search.request = [given |-> "int", v |-> 2]
    /\ served.search.candidates = <<Candidate(1), Candidate(2)>>

\* The rows of a table that reference case c.
OfCase(c, rows) == { r \in rows : r.case_id = c }

\* C17: the commit of delete_case on an existing case removes that case and
\* all of its photos and reviews, answers deleted = true and leaves every
\* other case, photo and review as it was; delete_case on an unknown case_id
\* answers deleted = false and leaves the store unchanged.
C17_DeleteCaseRemovesAll ==
    [][/\ (erase.pc = "commit" /\ erase'.pc = "idle") =>
             /\ erase'.deleted
             /\ cases' = cases \ {erase.case_id}
             /\ photos' = photos \ OfCase(erase.case_id, photos)
             /\ reviews' = reviews \ OfCase(erase.case_id, reviews)
       /\ (erase.pc = "idle" /\ erase'.pc = "idle" /\ erase' # erase) =>
             /\ erase'.case_id \notin cases
             /\ ~erase'.deleted
             /\ UNCHANGED <<cases, photos, reviews>>]_vars

\* The part of C17 that the code keeps: a delete_case during which no photo
\* or review of the case was stored by another request removes the case
\* with all its rows and nothing else.
DeleteCaseAlone ==
    [][(erase.pc = "commit" /\ erase'.pc = "idle"
          /\ erase.loaded =
               { r.id : r \in OfCase(erase.case_id, photos \cup reviews) }) =>
             /\ erase'.deleted
             /\ cases' = cases \ {erase.case_id}
             /\ photos' = photos \ OfCase(erase.case_id, photos)
             /\ reviews' = reviews \ OfCase(erase.case_id, reviews)]_vars

\* C18: in every state reached by create-case, upload-photo, record-review
\* and erase-case requests, however they interleave, every stored photo and
\* review references a case that exists; a row is stored only for a case
\* that exists when it is stored, and a request that finds no case is
\* answered 404.
C18_NoOrphanRows ==
    [][/\ \A r \in photos' \cup reviews' : r.case_id \in cases'
       /\ \A r \in (photos' \ photos) \cup (reviews' \ reviews) :
             r.case_id \in cases
       /\ (upload'.status = 404 /\ upload' # upload) =>
             upload'.case_id \notin cases /\ photos' = photos
       /\ (review'.status = 404 /\ review' # review) =>
             review'.case_id \notin cases /\ reviews' = reviews]_vars

\* The part of C18 that the code keeps: a request for a case_id that has no
\* case when the request arrives is answered 404 and stores nothing, and
\* without an erase-case request in between every photo and review
\* references an existing case.
NoOrphanRowsWithoutErase ==
    [][/\ erase'.status = 0 =>
             \A r \in photos' \cup reviews' : r.case_id \in cases'
       /\ (upload.pc = "idle" /\ upload' # upload
             /\ upload'.case_id \notin cases) =>
             upload'.status = 404 /\ photos' = photos
       /\ (review.pc = "idle" /\ review' # review
             /\ review'.case_id \notin cases) =>
             review'.status = 404 /\ reviews' = reviews]_vars

\* C15: no step of the consumer or of the HTTP API, the erasure of a case
\* included, removes or changes a stored event or alert row (rows are only
\* appended), and every event row is stored with the source, pet_id, type,
\* ts, duration_s, conf and payload of the message being handled.
C15_AppendOnly ==
    [][/\ Len(events') >= Len(events)
       /\ \A i \in 1..Len(events) : events'[i] = events[i]
       /\ Len(alerts') >= Len(alerts)
       /\ \A i \in 1..Len(alerts) : alerts'[i] = alerts[i]
       /\ \A i \in (Len(events) + 1)..Len(events') :
             /\ events'[i].source = LitterSubject
             /\ events'[i].pet_id = litter.msg.pet_id
             /\ events'[i].type = litter.msg.type
             /\ events'[i].ts = litter.msg.ts
             /\ events'[i].duration_s = litter.msg.duration_s
             /\ events'[i].conf = litter.msg.conf
             /\ events'[i].payload_json = litter.msg.payload]_vars

\* C15 witness: a case with a photo has been erased over a store that holds
\* an event and two alerts.
C15_Witness ==
    /\ erase.deleted /\ erase.loaded # {}
    /\ photos = {}
    /\ Len(events) = 1 /\ Len(alerts) = 2

=============================================================================
